---- MODULE Spec2Model ----
(***************************************************************************)
(* State-machine model of the kansuke scheduling-poll bot:                 *)
(*   - the SQLite store (src/src/lib/db.js): polls, options, votes3        *)
(*   - the HTTP vote endpoint and checkAndPromptClose (src/src/index.js)   *)
(*   - the postback handlers vote / close / finalize (src/src/lib/line.js) *)
(*   - the SSE registry (lib/sse.js)                                       *)
(*                                                                         *)
(* Node runs every handler on one event loop: the code between two awaits  *)
(* is one atomic step.  Each action below is one such synchronous block.   *)
(***************************************************************************)
EXTENDS Integers, Sequences, FiniteSets, TLC

Null == "null"

\* ------------------------------------------------------------------ bounds
\* concurrent checkAndPromptClose invocations that may be suspended at an await
MaxTasks == 2
\* confirmation pushes / finalize notices counted per poll
MaxSends == 2
\* the clock runs from 1 to MaxTime
MaxTime == 3
\* events an SSE connection is written before the model stops publishing to it
MaxEvents == 3

\* ------------------------------------------------------------ value domains
\* crypto.randomUUID() hands out fresh ids; the model hands them out in this order
PollIds == <<"p1", "p2">>
OptionIds == <<"o1", "o2", "o3">>
PollIdSet == {PollIds[i] : i \in 1..Len(PollIds)}
OptionIdSet == {OptionIds[i] : i \in 1..Len(OptionIds)}
Users == {"u1", "u2", "u3"}
BotUserId == "bot"
GroupIds == {"g1"}
\* an optionId that is a string but names no row of options
UnknownOption == "oX"
\* an optionId of a request body that is not a string (typeof ch.optionId !== 'string')
NotAString == "#not-a-string"
\* getHumanMemberCount returned null
CountUnavailable == -1
\* polls.deadline IS NULL (a falsy deadline is stored as NULL and never checked)
NoDeadline == 0
\* Number(x) is NaN
NaN == -1
Conns == {"c1", "c2"}
Tasks == 1..MaxTasks

VARIABLES
    polls,               \* table polls: id -> [status, group_id, deadline, finalized_date]
    options,             \* table options in rowid order: <<[id, poll_id]>>
    votes3,              \* table votes3: set of [poll_id, option_id, user_id, choice]
    now,                 \* Date.now()
    promptedClosePolls,  \* index.js: const promptedClosePolls = new Set()
    tasks,               \* suspended checkAndPromptClose invocations
    channels,            \* sse.js: channels, pollId -> set of connections
    received,            \* what each SSE connection has been written
    broken,              \* SSE connections whose error event has fired: a write to them fails
    promptSends,         \* confirmation pushes attempted, per poll
    promptDelivered,     \* confirmation pushes that succeeded, per poll
    finalizeNotices,     \* finalize group notifications attempted, per poll
    finalizeClosures,    \* finalize postbacks that set status closed, per poll
    lastCheck,           \* the quorum decision the latest step made (NoCheck: none)
    reply,               \* the reply / HTTP response the latest step produced (none: none)
    offered,             \* the candidate list the latest step offered for finalization
    delivery             \* the outcome of the message the latest close / finalize step sent

dbVars == <<polls, options, votes3>>
sseVars == <<channels, received, broken>>
sendVars == <<promptSends, promptDelivered, finalizeNotices, finalizeClosures>>
checkVars == <<promptedClosePolls, tasks>>
vars == <<polls, options, votes3, now, promptedClosePolls, tasks, channels, received, broken,
          promptSends, promptDelivered, finalizeNotices, finalizeClosures, lastCheck, reply,
          offered, delivery>>

\* ------------------------------------------------------------- small helpers
Range(s) == {s[i] : i \in 1..Len(s)}

\* ------------------------------------------------------------------ db.js
\* getPoll: the poll row and its options in rowid order, or null
getPollOptions(pollId) == SelectSeq(options, LAMBDA o : o.poll_id = pollId)

getPollExists(pollId) == pollId \in DOMAIN polls

\* setPollStatus: UPDATE polls SET status = ? WHERE id = ? (no row: no effect)
setPollStatus(pollId, status) ==
    IF pollId \in DOMAIN polls
    THEN [polls EXCEPT ![pollId].status = status]
    ELSE polls

\* a deadline update that also closes the poll
setPollDeadlineClosing(pollId, deadlineTs) ==
    IF pollId \in DOMAIN polls
    THEN [polls EXCEPT ![pollId].deadline = IF deadlineTs = 0 \/ deadlineTs = NaN
                                             THEN NoDeadline ELSE deadlineTs,
                       ![pollId].status = "closed"]
    ELSE polls

\* setPollDeadline: UPDATE polls SET deadline = ? with deadlineTs || null
setPollDeadline(pollId, deadlineTs) ==
    IF pollId \in DOMAIN polls
    THEN [polls EXCEPT ![pollId].deadline = IF deadlineTs = 0 \/ deadlineTs = NaN
                                             THEN NoDeadline ELSE deadlineTs]
    ELSE polls

\* createPoll: one transaction inserting the poll row (status open) and its options
FreshPollId == PollIds[Cardinality(DOMAIN polls) + 1]

createPollOptions(pollId, n) ==
    options \o [i \in 1..n |-> [id |-> OptionIds[Len(options) + i], poll_id |-> pollId]]

createPollRow(groupId) ==
    [status |-> "open", group_id |-> groupId, deadline |-> NoDeadline, finalized_date |-> Null]

\* getUserChoice3: the user's row for one option (the empty set for null)
getUserChoice3(pollId, userId, optionId) ==
    {r \in votes3 : r.poll_id = pollId /\ r.user_id = userId /\ r.option_id = optionId}

\* a count of the rows with choice 2 only
getAnswerCountsByUserYesOnly(pollId) ==
    LET voters == {r.user_id : r \in {v \in votes3 : v.poll_id = pollId}}
    IN {[user_id |-> u,
         cnt |-> Cardinality({v \in votes3 : v.poll_id = pollId /\ v.user_id = u /\ v.choice = 2})] :
            u \in voters}

\* getAnswerCountsByUser: SELECT user_id, COUNT(*) ... WHERE poll_id = ? GROUP BY user_id
getAnswerCountsByUser(pollId) ==
    LET voters == {r.user_id : r \in {v \in votes3 : v.poll_id = pollId}}
    IN {[user_id |-> u,
         cnt |-> Cardinality({v \in votes3 : v.poll_id = pollId /\ v.user_id = u})] : u \in voters}

\* getPollTally3: per option of the poll, in rowid order, the yes / maybe / no counts
\* (rows is the content of votes3 the query reads)
CountChoice(rows, pollId, optionId, c) ==
    Cardinality({v \in rows : v.poll_id = pollId /\ v.option_id = optionId /\ v.choice = c})

getPollTally3(rows, pollId) ==
    LET opts == getPollOptions(pollId)
    IN [i \in 1..Len(opts) |->
          [option_id |-> opts[i].id,
           yes_count |-> CountChoice(rows, pollId, opts[i].id, 2),
           maybe_count |-> CountChoice(rows, pollId, opts[i].id, 1),
           no_count |-> CountChoice(rows, pollId, opts[i].id, 0)]]

\* the two FOREIGN KEY clauses of votes3 (better-sqlite3 enforces foreign keys)
ForeignKeysHold(pollId, optionId) ==
    /\ pollId \in DOMAIN polls
    /\ optionId \in {options[i].id : i \in 1..Len(options)}

\* an insert that keeps the row it conflicts with
UpsertRowKeepingOld(rows, pollId, optionId, userId, choice) ==
    rows \cup {[poll_id |-> pollId, option_id |-> optionId, user_id |-> userId, choice |-> choice]}

\* an upsert that deletes the row when it already holds the submitted choice
UpsertRowToggle(rows, pollId, optionId, userId, choice) ==
    LET new == [poll_id |-> pollId, option_id |-> optionId, user_id |-> userId, choice |-> choice]
    IN IF new \in rows
       THEN rows \ {new}
       ELSE {r \in rows : ~(r.poll_id = pollId /\ r.option_id = optionId /\ r.user_id = userId)}
                \cup {new}

\* an upsert whose conflict target leaves out the user: the row replaces every user's
\* row on that option of the poll
UpsertRowSharedOption(rows, pollId, optionId, userId, choice) ==
    {r \in rows : ~(r.poll_id = pollId /\ r.option_id = optionId)}
        \cup {[poll_id |-> pollId, option_id |-> optionId, user_id |-> userId, choice |-> choice]}

\* INSERT ... ON CONFLICT(poll_id, option_id, user_id) DO UPDATE SET choice = excluded.choice
UpsertRow(rows, pollId, optionId, userId, choice) ==
    {r \in rows : ~(r.poll_id = pollId /\ r.option_id = optionId /\ r.user_id = userId)}
        \cup {[poll_id |-> pollId, option_id |-> optionId, user_id |-> userId, choice |-> choice]}

\* Number(ch.choice) on the JSON values a request body can carry
ToNumber(v) ==
    CASE v = "0" -> 0
      [] v = "1" -> 1
      [] v = "2" -> 2
      [] v = "3" -> 3
      [] v = "null" -> 0
      [] v = "true" -> 1
      [] OTHER -> NaN

\* the loop of upsertVotes3 from entry i on; st = [rows, seen, ok]
RECURSIVE UpsertLoop(_, _, _, _, _)
UpsertLoop(pollId, userId, choices, i, st) ==
    IF i > Len(choices) \/ ~st.ok THEN st
    ELSE LET ch == choices[i] IN
         IF ch.optionId = NotAString THEN UpsertLoop(pollId, userId, choices, i + 1, st)
         ELSE IF ToNumber(ch.choice) \notin {0, 1, 2} THEN UpsertLoop(pollId, userId, choices, i + 1, st)
         ELSE IF ch.optionId \in st.seen THEN UpsertLoop(pollId, userId, choices, i + 1, st)
         ELSE IF ~ForeignKeysHold(pollId, ch.optionId)
              THEN [st EXCEPT !.ok = FALSE]
              ELSE UpsertLoop(pollId, userId, choices, i + 1,
                        [rows |-> UpsertRow(st.rows, pollId, ch.optionId, userId, ToNumber(ch.choice)),
                         seen |-> st.seen \cup {ch.optionId},
                         ok |-> TRUE])

\* an upsertVotes3 that swallows the storage error and keeps the rows written before it
upsertVotes3SwallowError(pollId, userId, choices) ==
    LET st == UpsertLoop(pollId, userId, choices, 1, [rows |-> votes3, seen |-> {}, ok |-> TRUE])
    IN [ok |-> TRUE, rows |-> st.rows]

\* an upsertVotes3 that throws when no entry of the batch was written
upsertVotes3RejectEmpty(pollId, userId, choices) ==
    LET st == UpsertLoop(pollId, userId, choices, 1, [rows |-> votes3, seen |-> {}, ok |-> TRUE])
    IN IF st.ok /\ st.seen # {} THEN [ok |-> TRUE, rows |-> st.rows] ELSE [ok |-> FALSE, rows |-> votes3]

\* upsertVotes3: the transaction commits all its rows, or throws and commits none
upsertVotes3(pollId, userId, choices) ==
    LET st == UpsertLoop(pollId, userId, choices, 1, [rows |-> votes3, seen |-> {}, ok |-> TRUE])
    IN IF st.ok THEN [ok |-> TRUE, rows |-> st.rows] ELSE [ok |-> FALSE, rows |-> votes3]

\* ------------------------------------------------------------------ sse.js
\* a publish that writes to the connections of every poll
publishToAll(pollId, event) ==
    [c \in Conns |-> IF (\E q \in DOMAIN channels : c \in channels[q]) /\ c \notin broken
                     THEN Append(received[c], event)
                     ELSE received[c]]

\* a publish that gives up at a failing write: with a broken connection registered
\* under the poll, no connection is written
publishAbortOnFailure(pollId, event) ==
    [c \in Conns |-> IF /\ pollId \in DOMAIN channels /\ c \in channels[pollId]
                        /\ channels[pollId] \cap broken = {}
                     THEN Append(received[c], event)
                     ELSE received[c]]

\* publish: write the event to every connection registered under pollId; the write to
\* a broken connection throws and is ignored
publish(pollId, event) ==
    [c \in Conns |-> IF pollId \in DOMAIN channels /\ c \in channels[pollId] /\ c \notin broken
                     THEN Append(received[c], event)
                     ELSE received[c]]

\* the event both vote handlers publish: { type: 'tally', tally }
TallyEvent(tally) == [type |-> "tally", tally |-> tally]

\* --------------------------------------------- index.js: checkAndPromptClose
Reply(op, pollId, msg) == [op |-> op, pollId |-> pollId, msg |-> msg]

NoReply == Reply("none", Null, "none")

NoCheck ==
    [pollId |-> Null, nOpts |-> 0, memberCount |-> CountUnavailable, idsAsked |-> FALSE,
     memberIds |-> {}, counts |-> {}, allAnswered |-> FALSE]

\* a handler's reply; a handler step makes no quorum decision
Emit(r) == reply' = r /\ lastCheck' = NoCheck /\ offered' = <<>> /\ delivery' = "none"

IdleTask ==
    [pc |-> "idle", pollId |-> Null, group_id |-> Null, nOpts |-> 0,
     memberCount |-> CountUnavailable, counts |-> {}]

InFlight == {t \in Tasks : tasks[t].pc # "idle"}

FreeTask == CHOOSE t \in Tasks : tasks[t].pc = "idle" /\ \A s \in Tasks : s < t => tasks[s].pc # "idle"

\* the guards without the promptedClosePolls test
CheckProceedsIgnoringFlag(pollId) ==
    /\ pollId \in DOMAIN polls
    /\ polls[pollId].status = "open"
    /\ polls[pollId].group_id # ""
    /\ Len(getPollOptions(pollId)) # 0

\* the guards without the group target test
CheckProceedsNoGroup(pollId) ==
    /\ pollId \in DOMAIN polls
    /\ polls[pollId].status = "open"
    /\ pollId \notin promptedClosePolls
    /\ Len(getPollOptions(pollId)) # 0

\* lines 230-237: the synchronous guards in front of the first await
CheckProceeds(pollId) ==
    /\ pollId \in DOMAIN polls
    /\ polls[pollId].status = "open"
    /\ pollId \notin promptedClosePolls
    /\ polls[pollId].group_id # ""
    /\ Len(getPollOptions(pollId)) # 0

\* the invocation made by a vote handler: runs up to await getHumanMemberCount(...)
StartCheck(pollId) ==
    IF CheckProceeds(pollId)
    THEN /\ InFlight # Tasks
         /\ tasks' = [tasks EXCEPT ![FreeTask] =
                         [pc |-> "awaitCount", pollId |-> pollId, group_id |-> polls[pollId].group_id,
                          nOpts |-> Len(getPollOptions(pollId)),
                          memberCount |-> CountUnavailable, counts |-> {}]]
    ELSE UNCHANGED tasks

\* line 242: users whose answered-option count is >= nOpts
completedUsers(counts, nOpts) == {r.user_id : r \in {c \in counts : c.cnt >= nOpts}}

\* byUser.get(uid) || 0
byUser(counts, uid) ==
    IF \E r \in counts : r.user_id = uid
    THEN (CHOOSE r \in counts : r.user_id = uid).cnt
    ELSE 0

\* the headcount strategy counting every voter instead of the complete users
AllAnsweredByCountAnyVoter(counts, nOpts, memberCount) ==
    Cardinality({r.user_id : r \in counts}) >= memberCount

\* line 247: the headcount strategy
AllAnsweredByCount(counts, nOpts, memberCount) ==
    Cardinality(completedUsers(counts, nOpts)) >= memberCount

\* line 254: memberIds.filter((id) => id && id !== runtime.botUserId)
humanIds(memberIds) == {id \in memberIds : id # "" /\ id # BotUserId}

\* line 255: the member-id strategy
AllAnsweredByIds(counts, nOpts, memberIds) ==
    /\ humanIds(memberIds) # {}
    /\ \A uid \in humanIds(memberIds) : byUser(counts, uid) >= nOpts

\* lines 258-263: the voters fallback
AllAnsweredByVoters(counts, nOpts) ==
    LET uniqueVoters == {r.user_id : r \in {c \in counts : c.user_id # ""}}
        votersAllDone == /\ Cardinality(uniqueVoters) > 0
                         /\ \A uid \in uniqueVoters : byUser(counts, uid) >= nOpts
    IN votersAllDone /\ Cardinality(uniqueVoters) >= 2

\* an else branch that stops at the member-id decision
AllAnsweredElseNoVoters(counts, nOpts, memberIds) ==
    AllAnsweredByIds(counts, nOpts, memberIds)

\* lines 255-264: the decision of the else branch
AllAnsweredElse(counts, nOpts, memberIds) ==
    IF AllAnsweredByIds(counts, nOpts, memberIds)
    THEN TRUE
    ELSE AllAnsweredByVoters(counts, nOpts)

\* line 245: typeof memberCount === 'number' && memberCount > 0
UsesCount(memberCount) == memberCount # CountUnavailable /\ memberCount > 0

\* lines 266-284: return when not all answered, else call client.pushMessage and await it
DecideAndPush(t, allAnswered) ==
    IF allAnswered
    THEN /\ promptSends[tasks[t].pollId] < MaxSends
         /\ promptSends' = [promptSends EXCEPT ![tasks[t].pollId] = @ + 1]
         /\ tasks' = [tasks EXCEPT ![t] = [@ EXCEPT !.pc = "awaitPush", !.counts = {},
                                                       !.memberCount = CountUnavailable]]
    ELSE /\ tasks' = [tasks EXCEPT ![t] = IdleTask]
         /\ UNCHANGED promptSends

\* getHumanMemberCount has answered: lines 240-250
CheckAfterCount(t, memberCount) ==
    /\ tasks[t].pc = "awaitCount"
    /\ LET counts == getAnswerCountsByUser(tasks[t].pollId)
           nOpts == tasks[t].nOpts
       IN IF UsesCount(memberCount)
          THEN /\ DecideAndPush(t, AllAnsweredByCount(counts, nOpts, memberCount))
               /\ lastCheck' = [pollId |-> tasks[t].pollId, nOpts |-> nOpts,
                                memberCount |-> memberCount, idsAsked |-> FALSE, memberIds |-> {},
                                counts |-> counts,
                                allAnswered |-> AllAnsweredByCount(counts, nOpts, memberCount)]
          ELSE /\ tasks' = [tasks EXCEPT ![t] = [@ EXCEPT !.pc = "awaitIds", !.counts = counts,
                                                             !.memberCount = memberCount]]
               /\ lastCheck' = NoCheck
               /\ UNCHANGED promptSends
    /\ reply' = NoReply /\ offered' = <<>> /\ delivery' = "none"
    /\ UNCHANGED <<dbVars, now, promptedClosePolls, sseVars, promptDelivered,
                   finalizeNotices, finalizeClosures>>

\* getAllMemberIds has answered ([] when neither API gave a list): lines 251-284
CheckAfterIds(t, memberIds) ==
    /\ tasks[t].pc = "awaitIds"
    /\ DecideAndPush(t, AllAnsweredElse(tasks[t].counts, tasks[t].nOpts, memberIds))
    /\ lastCheck' = [pollId |-> tasks[t].pollId, nOpts |-> tasks[t].nOpts,
                     memberCount |-> tasks[t].memberCount, idsAsked |-> TRUE,
                     memberIds |-> memberIds,
                     counts |-> tasks[t].counts,
                     allAnswered |-> AllAnsweredElse(tasks[t].counts, tasks[t].nOpts, memberIds)]
    /\ reply' = NoReply /\ offered' = <<>> /\ delivery' = "none"
    /\ UNCHANGED <<dbVars, now, promptedClosePolls, sseVars, promptDelivered,
                   finalizeNotices, finalizeClosures>>

\* client.pushMessage has settled: lines 283-288
CheckAfterPush(t, ok) ==
    /\ tasks[t].pc = "awaitPush"
    /\ IF ok
       THEN /\ promptedClosePolls' = promptedClosePolls \cup {tasks[t].pollId}
            /\ promptDelivered' = [promptDelivered EXCEPT ![tasks[t].pollId] = @ + 1]
       ELSE UNCHANGED <<promptedClosePolls, promptDelivered>>
    /\ tasks' = [tasks EXCEPT ![t] = IdleTask]
    /\ lastCheck' = NoCheck
    /\ reply' = NoReply /\ offered' = <<>> /\ delivery' = "none"
    /\ UNCHANGED <<dbVars, now, sseVars, promptSends, finalizeNotices, finalizeClosures>>

\* the rejections without the status test
HttpVoteRejectionNoStatus(pollId) ==
    IF pollId \notin DOMAIN polls THEN "404 not_found"
    ELSE IF polls[pollId].deadline # NoDeadline /\ now > polls[pollId].deadline
         THEN "403 deadline_passed"
    ELSE "none"

\* the rejections with the deadline test as now >= deadline
HttpVoteRejectionAtDeadline(pollId) ==
    IF pollId \notin DOMAIN polls THEN "404 not_found"
    ELSE IF polls[pollId].status # "open" THEN "403 poll_closed"
    ELSE IF polls[pollId].deadline # NoDeadline /\ now >= polls[pollId].deadline
         THEN "403 deadline_passed"
    ELSE "none"

\* ------------------------------------ index.js: POST /api/polls/:pollId/votes3
\* lines 142-145: the rejections in front of the upsert
HttpVoteRejection(pollId) ==
    IF pollId \notin DOMAIN polls THEN "404 not_found"
    ELSE IF polls[pollId].status # "open" THEN "403 poll_closed"
    ELSE IF polls[pollId].deadline # NoDeadline /\ now > polls[pollId].deadline
         THEN "403 deadline_passed"
    ELSE "none"

\* a vote request that publishes the tally it read before writing the batch
HttpVotePublishStale(pollId, uid, choices) ==
    IF HttpVoteRejection(pollId) # "none"
    THEN /\ Emit(Reply("httpVote", pollId, HttpVoteRejection(pollId)))
         /\ UNCHANGED <<dbVars, now, checkVars, sseVars, sendVars>>
    ELSE LET r == upsertVotes3(pollId, uid, choices) IN
         IF ~r.ok
         THEN /\ Emit(Reply("httpVote", pollId, "500 server_error"))
              /\ UNCHANGED <<dbVars, now, checkVars, sseVars, sendVars>>
         ELSE /\ votes3' = r.rows
              /\ received' = publish(pollId, TallyEvent(getPollTally3(votes3, pollId)))
              /\ StartCheck(pollId)
              /\ Emit(Reply("httpVote", pollId, "200 ok"))
              /\ UNCHANGED <<polls, options, now, promptedClosePolls, channels, broken, sendVars>>

\* the request of an authenticated user uid, from the poll lookup to res.json
HttpVote(pollId, uid, choices) ==
    IF HttpVoteRejection(pollId) # "none"
    THEN /\ Emit(Reply("httpVote", pollId, HttpVoteRejection(pollId)))
         /\ UNCHANGED <<dbVars, now, checkVars, sseVars, sendVars>>
    ELSE LET r == upsertVotes3(pollId, uid, choices) IN
         IF ~r.ok
         THEN /\ Emit(Reply("httpVote", pollId, "500 server_error"))
              /\ UNCHANGED <<dbVars, now, checkVars, sseVars, sendVars>>
         ELSE /\ votes3' = r.rows
              /\ received' = publish(pollId, TallyEvent(getPollTally3(r.rows, pollId)))
              /\ StartCheck(pollId)
              /\ Emit(Reply("httpVote", pollId, "200 ok"))
              /\ UNCHANGED <<polls, options, now, promptedClosePolls, channels, broken, sendVars>>

\* ----------------------------------------------- line.js: handlePostback
\* a vote postback without the "already marked yes" test
PostbackVoteNoYesCheck(pollId, optionId, userId) ==
    LET r == upsertVotes3(pollId, userId, <<[optionId |-> optionId, choice |-> "2"]>>) IN
    IF ~r.ok
    THEN /\ Emit(Reply("vote", pollId, "vote_failed"))
         /\ UNCHANGED <<dbVars, now, checkVars, sseVars, sendVars>>
    ELSE /\ votes3' = r.rows
         /\ received' = publish(pollId, TallyEvent(getPollTally3(r.rows, pollId)))
         /\ Emit(Reply("vote", pollId, "vote_recorded"))
         /\ UNCHANGED <<polls, options, now, checkVars, channels, broken, sendVars>>

\* data = vote:<pollId>:<optionId>, lines 141-163
PostbackVote(pollId, optionId, userId) ==
    IF \E cur \in getUserChoice3(pollId, userId, optionId) : cur.choice = 2
    THEN /\ Emit(Reply("vote", pollId, "already_yes"))
         /\ UNCHANGED <<dbVars, now, checkVars, sseVars, sendVars>>
    ELSE LET r == upsertVotes3(pollId, userId, <<[optionId |-> optionId, choice |-> "2"]>>) IN
         IF ~r.ok
         THEN /\ Emit(Reply("vote", pollId, "vote_failed"))
              /\ UNCHANGED <<dbVars, now, checkVars, sseVars, sendVars>>
         ELSE /\ votes3' = r.rows
              /\ received' = publish(pollId, TallyEvent(getPollTally3(r.rows, pollId)))
              /\ Emit(Reply("vote", pollId, "vote_recorded"))
              /\ UNCHANGED <<polls, options, now, checkVars, channels, broken, sendVars>>

\* the tally row of an option: byId.get(id) || { yes_count: 0, maybe_count: 0, no_count: 0 }
byId(tally, id) ==
    IF \E i \in DOMAIN tally : tally[i].option_id = id
    THEN tally[CHOOSE i \in DOMAIN tally : tally[i].option_id = id]
    ELSE [option_id |-> id, yes_count |-> 0, maybe_count |-> 0, no_count |-> 0]

\* a comparator ordering the no counts descending as well
compareCandidatesNoDesc(tally, a, b) ==
    LET ta == byId(tally, a.id)
        tb == byId(tally, b.id)
    IN IF tb.yes_count # ta.yes_count THEN tb.yes_count - ta.yes_count
       ELSE IF tb.maybe_count # ta.maybe_count THEN tb.maybe_count - ta.maybe_count
       ELSE tb.no_count - ta.no_count

\* lines 194-200: the comparator of the sort (negative: a goes first)
compareCandidates(tally, a, b) ==
    LET ta == byId(tally, a.id)
        tb == byId(tally, b.id)
    IN IF tb.yes_count # ta.yes_count THEN tb.yes_count - ta.yes_count
       ELSE IF tb.maybe_count # ta.maybe_count THEN tb.maybe_count - ta.maybe_count
       ELSE ta.no_count - tb.no_count

\* Array.prototype.sort is stable: x goes behind every element it does not precede
SortInsert(tally, sorted, x) ==
    LET pos == Cardinality({i \in DOMAIN sorted : compareCandidates(tally, sorted[i], x) <= 0})
    IN SubSeq(sorted, 1, pos) \o <<x>> \o SubSeq(sorted, pos + 1, Len(sorted))

RECURSIVE SortCandidates(_, _)
SortCandidates(tally, opts) ==
    IF opts = <<>> THEN <<>>
    ELSE SortInsert(tally, SortCandidates(tally, SubSeq(opts, 1, Len(opts) - 1)), opts[Len(opts)])

\* line 201: sorted.slice(0, 10)
MaxCandidates == 10

\* lines 191-221: the option ids of the finalize buttons, in the order offered
candidateIds(pollId) ==
    LET sorted == SortCandidates(getPollTally3(votes3, pollId), getPollOptions(pollId))
        n == IF Len(sorted) < MaxCandidates THEN Len(sorted) ELSE MaxCandidates
    IN [i \in 1..n |-> sorted[i].id]

\* a close handler without the "already closing / closed" rejection
PostbackCloseNoGuard(pollId, yn) ==
    IF pollId \notin DOMAIN polls
    THEN /\ Emit(Reply("close", pollId, "poll_not_found"))
         /\ UNCHANGED <<dbVars, now, checkVars, sseVars, sendVars>>
    ELSE IF yn = "yes"
    THEN /\ polls' = setPollStatus(pollId, "closing")
         /\ reply' = Reply("close", pollId, "candidates")
         /\ offered' = candidateIds(pollId)
         /\ delivery' \in {"sent", "failed"}
         /\ lastCheck' = NoCheck
         /\ UNCHANGED <<options, votes3, now, checkVars, sseVars, sendVars>>
    ELSE /\ Emit(Reply("close", pollId, "continue_voting"))
         /\ UNCHANGED <<dbVars, now, checkVars, sseVars, sendVars>>

\* data = close:<pollId>:<yn>, lines 173-232
PostbackClose(pollId, yn) ==
    IF pollId \notin DOMAIN polls
    THEN /\ Emit(Reply("close", pollId, "poll_not_found"))
         /\ UNCHANGED <<dbVars, now, checkVars, sseVars, sendVars>>
    ELSE IF polls[pollId].status \in {"closing", "closed"}
    THEN /\ Emit(Reply("close", pollId,
                           IF polls[pollId].status = "closed" THEN "already_finalized"
                                                              ELSE "already_closing"))
         /\ UNCHANGED <<dbVars, now, checkVars, sseVars, sendVars>>
    ELSE IF yn = "yes"
    THEN /\ polls' = setPollStatus(pollId, "closing")
         /\ reply' = Reply("close", pollId, "candidates")
         /\ offered' = candidateIds(pollId)
         /\ delivery' \in {"sent", "failed"}
         /\ lastCheck' = NoCheck
         /\ UNCHANGED <<options, votes3, now, checkVars, sseVars, sendVars>>
    ELSE /\ Emit(Reply("close", pollId, "continue_voting"))
         /\ UNCHANGED <<dbVars, now, checkVars, sseVars, sendVars>>

\* the finalize handler without its "already closed" rejection
PostbackFinalizeNoClosedCheck(pollId, optionId) ==
    IF pollId \notin DOMAIN polls
    THEN /\ Emit(Reply("finalize", pollId, "failed poll_not_found"))
         /\ UNCHANGED <<dbVars, now, checkVars, sseVars, sendVars>>
    ELSE IF optionId \notin {o.id : o \in Range(getPollOptions(pollId))}
    THEN /\ Emit(Reply("finalize", pollId, "failed option_not_found"))
         /\ UNCHANGED <<dbVars, now, checkVars, sseVars, sendVars>>
    ELSE /\ polls' = setPollStatus(pollId, "closed")
         /\ finalizeClosures[pollId] < MaxSends
         /\ finalizeClosures' = [finalizeClosures EXCEPT ![pollId] = @ + 1]
         /\ IF polls[pollId].group_id # ""
            THEN /\ finalizeNotices' = [finalizeNotices EXCEPT ![pollId] = @ + 1]
                 /\ delivery' \in {"sent", "failed"}
            ELSE /\ UNCHANGED finalizeNotices
                 /\ delivery' = "none"
         /\ reply' = Reply("finalize", pollId, "finalized")
         /\ lastCheck' = NoCheck
         /\ offered' = <<>>
         /\ UNCHANGED <<options, votes3, now, checkVars, sseVars, promptSends, promptDelivered>>

\* a finalize handler without the option lookup
PostbackFinalizeAnyOption(pollId, optionId) ==
    IF pollId \notin DOMAIN polls
    THEN /\ Emit(Reply("finalize", pollId, "failed poll_not_found"))
         /\ UNCHANGED <<dbVars, now, checkVars, sseVars, sendVars>>
    ELSE IF polls[pollId].status = "closed"
    THEN /\ Emit(Reply("finalize", pollId, "already_finalized"))
         /\ UNCHANGED <<dbVars, now, checkVars, sseVars, sendVars>>
    ELSE /\ polls' = setPollStatus(pollId, "closed")
         /\ finalizeClosures[pollId] < MaxSends
         /\ finalizeClosures' = [finalizeClosures EXCEPT ![pollId] = @ + 1]
         /\ IF polls[pollId].group_id # ""
            THEN /\ finalizeNotices' = [finalizeNotices EXCEPT ![pollId] = @ + 1]
                 /\ delivery' \in {"sent", "failed"}
            ELSE /\ UNCHANGED finalizeNotices
                 /\ delivery' = "none"
         /\ reply' = Reply("finalize", pollId, "finalized")
         /\ lastCheck' = NoCheck
         /\ offered' = <<>>
         /\ UNCHANGED <<options, votes3, now, checkVars, sseVars, promptSends, promptDelivered>>

\* a finalize handler that restores the status when the group notification fails
PostbackFinalizeRollback(pollId, optionId) ==
    IF pollId \notin DOMAIN polls
    THEN /\ Emit(Reply("finalize", pollId, "failed poll_not_found"))
         /\ UNCHANGED <<dbVars, now, checkVars, sseVars, sendVars>>
    ELSE IF polls[pollId].status = "closed"
    THEN /\ Emit(Reply("finalize", pollId, "already_finalized"))
         /\ UNCHANGED <<dbVars, now, checkVars, sseVars, sendVars>>
    ELSE IF optionId \notin {o.id : o \in Range(getPollOptions(pollId))}
    THEN /\ Emit(Reply("finalize", pollId, "failed option_not_found"))
         /\ UNCHANGED <<dbVars, now, checkVars, sseVars, sendVars>>
    ELSE /\ finalizeClosures[pollId] < MaxSends
         /\ finalizeClosures' = [finalizeClosures EXCEPT ![pollId] = @ + 1]
         /\ IF polls[pollId].group_id # ""
            THEN /\ finalizeNotices' = [finalizeNotices EXCEPT ![pollId] = @ + 1]
                 /\ delivery' \in {"sent", "failed"}
            ELSE /\ UNCHANGED finalizeNotices
                 /\ delivery' = "none"
         /\ polls' = IF delivery' = "failed" THEN polls ELSE setPollStatus(pollId, "closed")
         /\ reply' = Reply("finalize", pollId, "finalized")
         /\ lastCheck' = NoCheck
         /\ offered' = <<>>
         /\ UNCHANGED <<options, votes3, now, checkVars, sseVars, promptSends, promptDelivered>>

\* data = finalize:<pollId>:<optionId>, lines 234-258
PostbackFinalize(pollId, optionId) ==
    IF pollId \notin DOMAIN polls
    THEN /\ Emit(Reply("finalize", pollId, "failed poll_not_found"))
         /\ UNCHANGED <<dbVars, now, checkVars, sseVars, sendVars>>
    ELSE IF polls[pollId].status = "closed"
    THEN /\ Emit(Reply("finalize", pollId, "already_finalized"))
         /\ UNCHANGED <<dbVars, now, checkVars, sseVars, sendVars>>
    ELSE IF optionId \notin {o.id : o \in Range(getPollOptions(pollId))}
    THEN /\ Emit(Reply("finalize", pollId, "failed option_not_found"))
         /\ UNCHANGED <<dbVars, now, checkVars, sseVars, sendVars>>
    ELSE /\ polls' = setPollStatus(pollId, "closed")
         /\ finalizeClosures[pollId] < MaxSends
         /\ finalizeClosures' = [finalizeClosures EXCEPT ![pollId] = @ + 1]
         /\ IF polls[pollId].group_id # ""
            THEN /\ finalizeNotices' = [finalizeNotices EXCEPT ![pollId] = @ + 1]
                 /\ delivery' \in {"sent", "failed"}
            ELSE /\ UNCHANGED finalizeNotices
                 /\ delivery' = "none"
         /\ reply' = Reply("finalize", pollId, "finalized")
         /\ lastCheck' = NoCheck
         /\ offered' = <<>>
         /\ UNCHANGED <<options, votes3, now, checkVars, sseVars, promptSends, promptDelivered>>

\* db.createPoll applied to a list of n options (n = 0: the empty list); bad is the
\* position of an option without a label (0: none), whose insert violates NOT NULL and
\* rolls the transaction back
createPoll(groupId, n, bad) ==
    /\ Cardinality(DOMAIN polls) < Len(PollIds)
    /\ Len(options) + n <= Len(OptionIds)
    /\ IF bad \in 1..n
       THEN /\ Emit(Reply("createPoll", FreshPollId, "error"))
            /\ UNCHANGED dbVars
       ELSE /\ polls' = polls @@ (FreshPollId :> createPollRow(groupId))
            /\ options' = createPollOptions(FreshPollId, n)
            /\ Emit(Reply("createPoll", FreshPollId, "poll_created"))
            /\ UNCHANGED votes3
    /\ UNCHANGED <<now, checkVars, sseVars, sendVars>>

\* index.js line 151 and lines 229-239: checkAndPromptClose({ pollId }) invoked on its own
checkAndPromptClose(pollId) ==
    /\ StartCheck(pollId)
    /\ Emit(Reply("check", pollId, IF CheckProceeds(pollId) THEN "awaiting" ELSE "returned"))
    /\ UNCHANGED <<dbVars, now, promptedClosePolls, sseVars, sendVars>>

\* line.js lines 97-106: a mention whose candidates list is non-empty creates a poll
CreatePoll(groupId, n) ==
    /\ n > 0
    /\ Cardinality(DOMAIN polls) < Len(PollIds)
    /\ Len(options) + n <= Len(OptionIds)
    /\ polls' = polls @@ (FreshPollId :> createPollRow(groupId))
    /\ options' = createPollOptions(FreshPollId, n)
    /\ Emit(Reply("createPoll", FreshPollId, "poll_created"))
    /\ UNCHANGED <<votes3, now, checkVars, sseVars, sendVars>>

\* ------------------------------------ index.js: POST /api/polls/:pollId/deadline
\* the deadline of a request body: absent, a number, or a string given to Date.parse
\* (ts is the number, or what the string parses to: NaN when it is no date)
DeadlineBody(kind, ts) == [kind |-> kind, ts |-> ts]

\* lines 179-183: ts = null, the number, or Date.parse(deadline)
DeadlineTs(deadline) == IF deadline.kind = "absent" THEN NoDeadline ELSE deadline.ts

\* a credential test without the "no secret configured" rejection
AuthorizedBySecretOnly(secret, auth) == auth = secret

\* line 176: !ADMIN_SECRET || auth !== ADMIN_SECRET is the rejection
Authorized(secret, auth) == secret # "" /\ auth = secret

AdminSetDeadline(pollId, authorized, deadline) ==
    IF ~authorized
    THEN /\ Emit(Reply("deadline", pollId, "401 unauthorized"))
         /\ UNCHANGED <<dbVars, now, checkVars, sseVars, sendVars>>
    ELSE IF deadline.kind # "absent" /\ DeadlineTs(deadline) = NaN
    THEN /\ Emit(Reply("deadline", pollId, "400 invalid_deadline"))
         /\ UNCHANGED <<dbVars, now, checkVars, sseVars, sendVars>>
    ELSE IF pollId \notin DOMAIN polls
    THEN /\ Emit(Reply("deadline", pollId, "404 not_found"))
         /\ UNCHANGED <<dbVars, now, checkVars, sseVars, sendVars>>
    ELSE /\ polls' = setPollDeadline(pollId, DeadlineTs(deadline))
         /\ Emit(Reply("deadline", pollId, "200 ok"))
         /\ UNCHANGED <<options, votes3, now, checkVars, sseVars, sendVars>>

\* ------------------------------------- index.js: GET /api/polls/:pollId/stream
Ping == [type |-> "ping", tally |-> <<>>]

\* a stream endpoint that replays the current tally to the new connection
StreamOpenWithReplay(pollId, c) ==
    /\ received[c] = <<>>
    /\ channels' = [channels EXCEPT ![pollId] = @ \cup {c}]
    /\ received' = [received EXCEPT ![c] = <<Ping, TallyEvent(getPollTally3(votes3, pollId))>>]
    /\ Emit(Reply("stream", pollId, "200 open"))
    /\ UNCHANGED <<dbVars, now, checkVars, broken, sendVars>>

\* subscribe(pollId, res), then the initial ping written to res; c is a new connection
StreamOpen(pollId, c) ==
    /\ received[c] = <<>>
    /\ channels' = [channels EXCEPT ![pollId] = @ \cup {c}]
    /\ received' = [received EXCEPT ![c] = Append(@, Ping)]
    /\ Emit(Reply("stream", pollId, "200 open"))
    /\ UNCHANGED <<dbVars, now, checkVars, broken, sendVars>>

\* an error event of a registered connection: subscribe registers no listener for it,
\* the registry stays as it is and writes to the connection fail from now on
StreamError(pollId, c) ==
    /\ c \in channels[pollId]
    /\ c \notin broken
    /\ broken' = broken \cup {c}
    /\ Emit(Reply("stream", pollId, "error"))
    /\ UNCHANGED <<dbVars, now, checkVars, channels, received, sendVars>>

\* res.on('close'): the connection leaves the set it was registered in
StreamClose(pollId, c) ==
    /\ c \in channels[pollId]
    /\ channels' = [channels EXCEPT ![pollId] = @ \ {c}]
    /\ Emit(Reply("stream", pollId, "closed"))
    /\ UNCHANGED <<dbVars, now, checkVars, received, broken, sendVars>>

\* Date.now() advances
Tick ==
    /\ now < MaxTime
    /\ now' = now + 1
    /\ Emit(NoReply)
    /\ UNCHANGED <<dbVars, checkVars, sseVars, sendVars>>

\* ------------------------------------------------------------------- start
Init ==
    /\ polls = <<>>
    /\ options = <<>>
    /\ votes3 = {}
    /\ now = 1
    /\ promptedClosePolls = {}
    /\ tasks = [t \in Tasks |-> IdleTask]
    /\ channels = [p \in PollIdSet |-> {}]
    /\ received = [c \in Conns |-> <<>>]
    /\ broken = {}
    /\ promptSends = [p \in PollIdSet |-> 0]
    /\ promptDelivered = [p \in PollIdSet |-> 0]
    /\ finalizeNotices = [p \in PollIdSet |-> 0]
    /\ finalizeClosures = [p \in PollIdSet |-> 0]
    /\ lastCheck = NoCheck
    /\ reply = NoReply
    /\ offered = <<>>
    /\ delivery = "none"

\* ------------------------------------------------------------ environments
\* what the membership APIs may answer
MemberCounts == {CountUnavailable, 0, 1, 2, 3}
MemberLists == {{}, {BotUserId}, {"u1", "u2", BotUserId}, {"u1", "u2", "u3", BotUserId}}

Vote(o, c) == [optionId |-> o, choice |-> c]

\* request bodies of the quorum specification: every option answered, one option,
\* an option of another poll, an option that does not exist
QuorumBatches ==
    {<<Vote("o1", "2"), Vote("o2", "1")>>, <<Vote("o1", "2")>>,
     <<Vote("o1", "2"), Vote("o3", "2")>>, <<Vote(UnknownOption, "2")>>}

\* the polls of the quorum specification: the first with two options, the second with one
QuorumPollSizes == <<2, 1>>

\* votes, one quorum check at a time, every answer of the membership APIs
NextQuorum ==
    \/ /\ Cardinality(DOMAIN polls) < Len(QuorumPollSizes)
       /\ CreatePoll("g1", QuorumPollSizes[Cardinality(DOMAIN polls) + 1])
    \/ \E u \in Users, b \in QuorumBatches : InFlight = {} /\ HttpVote("p1", u, b)
    \/ \E u \in Users, o \in {"o2", "o3"} : InFlight = {} /\ PostbackVote("p1", o, u)
    \/ \E t \in Tasks, m \in MemberCounts : CheckAfterCount(t, m)
    \/ \E t \in Tasks, ids \in MemberLists : CheckAfterIds(t, ids)
    \/ \E t \in Tasks, ok \in BOOLEAN : CheckAfterPush(t, ok)

SpecQuorum == Init /\ [][NextQuorum]_vars

\* ---- the prompt specification: one poll of a group whose humans are u1 and u2;
\* ---- the membership APIs answer truthfully or not at all; checks run concurrently
GroupMembers == {"u1", "u2"}
PromptCounts == {CountUnavailable, Cardinality(GroupMembers)}
PromptLists == {{}, GroupMembers \cup {BotUserId}}
PromptBatches == {<<Vote("o1", "2"), Vote("o2", "1")>>, <<Vote("o1", "2")>>}

CheckSteps(counts, lists) ==
    \/ \E t \in Tasks, m \in counts : CheckAfterCount(t, m)
    \/ \E t \in Tasks, ids \in lists : CheckAfterIds(t, ids)
    \/ \E t \in Tasks, ok \in BOOLEAN : CheckAfterPush(t, ok)

NextPrompt ==
    \/ polls = <<>> /\ CreatePoll("g1", 2)
    \/ \E u \in GroupMembers, b \in PromptBatches : HttpVote("p1", u, b)
    \/ \E u \in GroupMembers, o \in {"o1", "o2"} : PostbackVote("p1", o, u)
    \/ CheckSteps(PromptCounts, PromptLists)

SpecPrompt == Init /\ [][NextPrompt]_vars

\* every member of the group has a row for every option of the poll in rows
AtQuorumIn(rows, p) ==
    \A u \in GroupMembers : \A o \in {x.id : x \in Range(getPollOptions(p))} :
        \E v \in rows : v.poll_id = p /\ v.user_id = u /\ v.option_id = o

\* ---- the race specification: as the prompt specification, but the HTTP submissions
\* ---- are those that leave the poll at quorum (earlier answers arrive by postback)
NextRace ==
    \/ polls = <<>> /\ CreatePoll("g1", 2)
    \/ \E u \in GroupMembers, b \in PromptBatches :
          /\ "p1" \in DOMAIN polls
          /\ AtQuorumIn(upsertVotes3("p1", u, b).rows, "p1")
          /\ HttpVote("p1", u, b)
    \/ \E u \in GroupMembers, o \in {"o1", "o2"} : PostbackVote("p1", o, u)
    \/ CheckSteps(PromptCounts, PromptLists)

SpecRace == Init /\ [][NextRace]_vars

\* ---- the lifecycle specification: two polls, every postback on each of them,
\* ---- one quorum check at a time
NextLife ==
    \/ \E n \in {1, 2} : CreatePoll("g1", n)
    \/ \E p \in PollIdSet : InFlight = {} /\ HttpVote(p, "u1", <<Vote("o1", "2")>>)
    \/ \E p \in PollIdSet : PostbackVote(p, "o1", "u1")
    \/ \E p \in PollIdSet, yn \in {"yes", "no"} : PostbackClose(p, yn)
    \/ \E p \in PollIdSet, o \in OptionIdSet \cup {UnknownOption} : PostbackFinalize(p, o)
    \/ CheckSteps({CountUnavailable, 1}, {{}})

SpecLife == Init /\ [][NextLife]_vars

\* the model publishes only while every registered connection is below MaxEvents
CanPublish == \A p \in PollIdSet : \A c \in channels[p] : Len(received[c]) < MaxEvents

\* ---- the deadline specification: one poll with one option (p2 stays unknown) and one
\* ---- member, the admin endpoint, the clock, one SSE connection, both vote paths, the
\* ---- close postback
DeadlineBodies ==
    {DeadlineBody("absent", 0), DeadlineBody("number", 0), DeadlineBody("number", 1),
     DeadlineBody("number", 2), DeadlineBody("string", 2), DeadlineBody("string", NaN)}

\* ADMIN_SECRET as configured (empty: none) and the bearer token of a request (empty: none)
AdminCredentials ==
    {[secret |-> "", auth |-> ""], [secret |-> "secret", auth |-> ""],
     [secret |-> "secret", auth |-> "guess"], [secret |-> "secret", auth |-> "secret"]}

DeadlineBatches == {<<Vote("o1", "2")>>, <<Vote("o1", "0")>>}

NextDeadline ==
    \/ polls = <<>> /\ CreatePoll("g1", 1)
    \/ \E p \in PollIdSet, a \in {"guess", "secret"}, d \in DeadlineBodies :
          AdminSetDeadline(p, Authorized("secret", a), d)
    \/ Tick
    \/ \E p \in PollIdSet : StreamOpen(p, "c1")
    \/ \E p \in PollIdSet : StreamClose(p, "c1")
    \/ \E p \in PollIdSet, b \in DeadlineBatches :
          InFlight = {} /\ CanPublish /\ HttpVote(p, "u1", b)
    \/ \E p \in PollIdSet : CanPublish /\ PostbackVote(p, "o1", "u1")
    \/ \E p \in PollIdSet, yn \in {"yes", "no"} : PostbackClose(p, yn)
    \/ CheckSteps({CountUnavailable, 1}, {{}})

SpecDeadline == Init /\ [][NextDeadline]_vars

\* ---- the ledger specification: p1 with options o1, o2 and p2 with option o3; two
\* ---- users submit batches to p1: complete, a repeated option, a repeated option whose
\* ---- first entry has an invalid choice, entries that are all dropped, no entry, an
\* ---- option of the other poll; and postback votes
LedgerUsers == {"u1", "u2"}

LedgerBatches ==
    {<<Vote("o1", "2"), Vote("o2", "1")>>,
     <<Vote("o1", "0"), Vote("o1", "2")>>,
     <<Vote("o1", "3"), Vote("o1", "1")>>,
     <<Vote(NotAString, "2"), Vote("o2", "3")>>,
     <<>>,
     <<Vote("o1", "2"), Vote("o3", "2")>>}

NextLedger ==
    \/ /\ Cardinality(DOMAIN polls) < Len(QuorumPollSizes)
       /\ CreatePoll("g1", QuorumPollSizes[Cardinality(DOMAIN polls) + 1])
    \/ \E u \in LedgerUsers, b \in LedgerBatches : InFlight = {} /\ HttpVote("p1", u, b)
    \/ \E u \in LedgerUsers : PostbackVote("p1", "o2", u)
    \/ CheckSteps({CountUnavailable, 2}, {{}})

SpecLedger == Init /\ [][NextLedger]_vars

\* ---- the admin specification: one poll with one option and one member, the deadline
\* ---- endpoint under every configuration and credential, the clock, both vote paths,
\* ---- the close and finalize postbacks
NextAdmin ==
    \/ polls = <<>> /\ CreatePoll("g1", 1)
    \/ \E p \in PollIdSet, k \in AdminCredentials, d \in DeadlineBodies :
          AdminSetDeadline(p, Authorized(k.secret, k.auth), d)
    \/ Tick
    \/ \E b \in DeadlineBatches : InFlight = {} /\ HttpVote("p1", "u1", b)
    \/ PostbackVote("p1", "o1", "u1")
    \/ \E yn \in {"yes", "no"} : PostbackClose("p1", yn)
    \/ PostbackFinalize("p1", "o1")
    \/ CheckSteps({CountUnavailable, 1}, {{}})

SpecAdmin == Init /\ [][NextAdmin]_vars

\* ---- the store specification: db.createPoll on every list of at most one option, with
\* ---- and without a group target, with and without a failing option insert; HTTP votes
\* ---- postback votes and the close-prompt check on both poll ids; the membership APIs give no count,
\* ---- the count 1, and no list
CreateUsers == {"u1", "u2"}

NextCreate ==
    \/ \E g \in {"g1", ""}, n \in 0..1, bad \in 0..1 : createPoll(g, n, bad)
    \/ \E p \in PollIdSet, u \in CreateUsers, c \in {"1", "2"} :
          InFlight = {} /\ HttpVote(p, u, <<Vote("o1", c)>>)
    \/ \E p \in PollIdSet, u \in CreateUsers : InFlight = {} /\ PostbackVote(p, "o1", u)
    \/ \E p \in PollIdSet : InFlight = {} /\ checkAndPromptClose(p)
    \/ CheckSteps({CountUnavailable, 1}, {{}})

SpecCreate == Init /\ [][NextCreate]_vars

\* ---- the postback specification: p1 with option o1 and p2 with option o2; one SSE
\* ---- connection; two users answer o1 of p1 with no or yes over HTTP and send vote
\* ---- postbacks on p1 naming its option, the option of p2 and an option that does not
\* ---- exist
PostbackUsers == {"u1", "u2"}

PostbackOptions == {"o1", "o2", UnknownOption}

NextPostback ==
    \/ CreatePoll("g1", 1)
    \/ \E p \in PollIdSet : StreamOpen(p, "c1")
    \/ \E u \in PostbackUsers, c \in {"0", "2"} :
          InFlight = {} /\ CanPublish /\ HttpVote("p1", u, <<Vote("o1", c)>>)
    \/ \E u \in PostbackUsers, o \in PostbackOptions : CanPublish /\ PostbackVote("p1", o, u)
    \/ CheckSteps({CountUnavailable}, {{}})

SpecPostback == Init /\ [][NextPostback]_vars

\* ---- the ranking specification: one poll with three options; two users answer single
\* ---- options with no, maybe or yes over HTTP; the poll is closed with yes or no
RankUsers == {"u1", "u2"}

RankBatches == {<<Vote(o, c)>> : o \in {"o1", "o2", "o3"}, c \in {"0", "1", "2"}}

NextRank ==
    \/ polls = <<>> /\ CreatePoll("g1", 3)
    \/ \E u \in RankUsers, b \in RankBatches : InFlight = {} /\ HttpVote("p1", u, b)
    \/ \E yn \in {"yes", "no"} : InFlight = {} /\ PostbackClose("p1", yn)
    \/ CheckSteps({CountUnavailable}, {{}})

SpecRank == Init /\ [][NextRank]_vars

\* ---- the stream specification: p1 with option o1 and p2 with option o2; two SSE
\* ---- connections open on either poll, fail and close; two users vote on p1 by both
\* ---- paths; one batch names an option that does not exist behind a valid entry
StreamBatches == {<<Vote("o1", "2")>>, <<Vote("o1", "1"), Vote(UnknownOption, "2")>>}

NextStream ==
    \/ CreatePoll("g1", 1)
    \/ \E p \in PollIdSet, c \in Conns : StreamOpen(p, c)
    \/ \E p \in PollIdSet, c \in Conns : StreamError(p, c)
    \/ \E p \in PollIdSet, c \in Conns : StreamClose(p, c)
    \/ \E u \in LedgerUsers, b \in StreamBatches :
          InFlight = {} /\ CanPublish /\ HttpVote("p1", u, b)
    \/ \E o \in {"o1", UnknownOption} : CanPublish /\ PostbackVote("p1", o, "u1")
    \/ CheckSteps({CountUnavailable}, {{}})

SpecStream == Init /\ [][NextStream]_vars

\* ------------------------------------------------- vocabulary of the claims
\* the ids of the options of a poll
OptionsOf(p) == {o.id : o \in Range(getPollOptions(p))}

\* one vote row exists for every option of the poll for that user
AnsweredAll(p, u) == \A o \in OptionsOf(p) : \E v \in votes3 : v.poll_id = p /\ v.user_id = u /\ v.option_id = o

\* the user's number of vote rows on the poll
AnsweredCount(p, u) == Cardinality({v \in votes3 : v.poll_id = p /\ v.user_id = u})

\* the distinct users with at least one vote on the poll
Voters(p) == {v.user_id : v \in {w \in votes3 : w.poll_id = p}}

\* the latest step decided quorum for some poll
Decided == lastCheck.pollId # Null

\* a confirmation push for the poll is in flight
PushPending(p) == \E t \in Tasks : tasks[t].pc = "awaitPush" /\ tasks[t].pollId = p

\* ------------------------------------------------------------------ claims
\* C2: with the headcount unavailable and the member-id list obtained, quorum is reached
\* if and only if the list without the bot is non-empty and every id left in it has
\* answered all options of the poll.
C2_MemberIdQuorum ==
    (Decided /\ lastCheck.idsAsked /\ lastCheck.memberIds # {}) =>
        (lastCheck.allAnswered <=>
            /\ lastCheck.memberIds \ {BotUserId} # {}
            /\ \A u \in lastCheck.memberIds \ {BotUserId} : AnsweredAll(lastCheck.pollId, u))

\* C3: with a member count m > 0, quorum is reached if and only if the number of users
\* whose answered-option count is >= the number of options is >= m; the member-id list
\* is not asked for, and the confirmation is pushed exactly when quorum is reached.
C3_HeadcountQuorum ==
    (Decided /\ lastCheck.memberCount > 0) =>
        /\ ~lastCheck.idsAsked
        /\ lastCheck.nOpts = Cardinality(OptionsOf(lastCheck.pollId))
        /\ lastCheck.allAnswered <=>
              Cardinality({u \in Users : AnsweredCount(lastCheck.pollId, u) >= lastCheck.nOpts})
                  >= lastCheck.memberCount
        /\ lastCheck.allAnswered <=> PushPending(lastCheck.pollId)

\* C3 witness: headcount 2, two users complete and a third voter incomplete: reached
C3_Witness ==
    /\ Decided /\ lastCheck.memberCount = 2 /\ lastCheck.allAnswered
    /\ Cardinality(Voters(lastCheck.pollId)) = 3
    /\ \E u \in Users : AnsweredCount(lastCheck.pollId, u) = 1

\* C4: with the member count and the member-id list both unavailable, quorum is reached
\* if and only if at least two distinct users have voted on the poll and every one of
\* them has answered all options.
C4_VotersQuorum ==
    (Decided /\ lastCheck.idsAsked /\ lastCheck.memberCount = CountUnavailable
             /\ lastCheck.memberIds = {}) =>
        (lastCheck.allAnswered <=>
            /\ Cardinality(Voters(lastCheck.pollId)) >= 2
            /\ \A u \in Voters(lastCheck.pollId) : AnsweredAll(lastCheck.pollId, u))

\* C5: a user whom getAnswerCountsByUser reports with cnt >= the number of options of
\* the poll has one vote row for every option of that poll.
C5_CompleteHasEveryOption ==
    \A p \in DOMAIN polls : \A r \in getAnswerCountsByUser(p) :
        r.cnt >= Len(getPollOptions(p)) => AnsweredAll(p, r.user_id)

\* confirmation pushes for the poll that are in flight / that have failed
PendingPushes(p) == Cardinality({t \in Tasks : tasks[t].pc = "awaitPush" /\ tasks[t].pollId = p})

FailedSends(p) == promptSends[p] - promptDelivered[p] - PendingPushes(p)

\* the step records a vote on poll p (HTTP endpoint or postback)
VoteRecorded(p) == reply' \in {Reply("httpVote", p, "200 ok"), Reply("vote", p, "vote_recorded")}

\* the step starts a checkAndPromptClose for poll p that reaches its first await
CheckStarted(p) ==
    \E t \in Tasks : tasks[t].pc = "idle" /\ tasks'[t].pc = "awaitCount" /\ tasks'[t].pollId = p

\* C1: vote submissions that each leave the poll at quorum, handled concurrently, get
\* exactly one confirmation prompt sent: while no send has failed, never a second one.
C1_ExactlyOnePrompt ==
    \A p \in PollIdSet : FailedSends(p) = 0 => promptSends[p] <= 1

\* C6: the flag of a poll is set only by a delivered confirmation; a failed send leaves
\* the flags as they are; and after a failed send every vote recorded on the poll, still
\* open and unflagged, runs the check again (which sends when quorum holds).
C6_FlagAfterDelivery ==
    /\ [](\A p \in promptedClosePolls : promptDelivered[p] >= 1)
    /\ [][\A t \in Tasks :
            (tasks[t].pc = "awaitPush" /\ tasks'[t].pc = "idle") =>
                IF promptDelivered' = promptDelivered
                THEN promptedClosePolls' = promptedClosePolls
                ELSE promptedClosePolls' = promptedClosePolls \cup {tasks[t].pollId}]_vars
    /\ [][\A p \in DOMAIN polls :
            (FailedSends(p) > 0 /\ VoteRecorded(p) /\ CheckProceeds(p)) => CheckStarted(p)]_vars

\* C7: after every recorded vote, by the HTTP endpoint or by the postback callback, the
\* close-prompt check runs (it passes its guards when the poll is open, unflagged, has a
\* group and options, and then reaches the member-count query).
C7_CheckAfterEveryVote ==
    [][\A p \in DOMAIN polls : (VoteRecorded(p) /\ CheckProceeds(p)) => CheckStarted(p)]_vars

\* C8: a status is open, closing or closed; a poll is created open; a status changes only
\* from open to closing by a 'yes' close response or from closing to closed by a finalize.
C8_StatusTransitions ==
    /\ [](\A p \in DOMAIN polls : polls[p].status \in {"open", "closing", "closed"})
    /\ [][\A p \in PollIdSet :
            /\ (p \notin DOMAIN polls /\ p \in DOMAIN polls') => polls'[p].status = "open"
            /\ p \in DOMAIN polls =>
                 /\ p \in DOMAIN polls'
                 /\ \/ polls'[p].status = polls[p].status
                    \/ /\ polls[p].status = "open" /\ polls'[p].status = "closing"
                       /\ reply' = Reply("close", p, "candidates")
                    \/ /\ polls[p].status = "closing" /\ polls'[p].status = "closed"
                       /\ reply' = Reply("finalize", p, "finalized")]_vars

\* C9: every closed poll has a finalized date.
C9_ClosedHasFinalizedDate ==
    \A p \in DOMAIN polls : polls[p].status = "closed" => polls[p].finalized_date # Null

\* C10: a finalize on a closed poll is rejected and changes nothing; a closed poll stays
\* as it is; a poll is closed by exactly one finalize, and its group notification is
\* attempted at most once.
C10_FinalizeAtMostOnce ==
    /\ [](\A p \in PollIdSet :
            /\ finalizeNotices[p] <= 1
            /\ finalizeClosures[p] <= 1
            /\ (p \in DOMAIN polls /\ polls[p].status = "closed") <=> finalizeClosures[p] = 1)
    /\ [][\A p \in DOMAIN polls :
            polls[p].status = "closed" =>
                /\ polls'[p] = polls[p]
                /\ finalizeNotices'[p] = finalizeNotices[p]
                /\ finalizeClosures'[p] = finalizeClosures[p]
                /\ reply'.op = "finalize" /\ reply'.pollId = p =>
                      /\ reply'.msg = "already_finalized"
                      /\ UNCHANGED <<dbVars, now, checkVars, sseVars, sendVars>>]_vars

\* C10 witness: a closed poll, notified once, whose further finalize was just rejected
C10_Witness ==
    \E p \in DOMAIN polls :
        /\ polls[p].status = "closed"
        /\ reply = Reply("finalize", p, "already_finalized")
        /\ finalizeNotices[p] = 1 /\ finalizeClosures[p] = 1

\* C11: after a 'no' response to a delivered confirmation prompt the status of the poll
\* is closing, and no step moves a poll that is not open back to open.
C11_NoLeavesClosing ==
    /\ [][\A p \in DOMAIN polls :
            (promptDelivered[p] >= 1 /\ reply' = Reply("close", p, "continue_voting"))
                => polls'[p].status = "closing"]_vars
    /\ [][\A p \in DOMAIN polls : polls[p].status # "open" => polls'[p].status # "open"]_vars

\* C12: with votes handled one at a time, once a confirmation prompt has been delivered
\* for a poll no step sends another one for it, whatever responses and votes follow.
C12_NoSecondPrompt ==
    [][\A p \in PollIdSet : promptDelivered[p] >= 1 => promptSends'[p] = promptSends[p]]_vars

\* C12 witness: a vote was just accepted on an open poll whose prompt was delivered and
\* whose only member is still complete; one prompt has been sent
C12_Witness ==
    \E p \in DOMAIN polls :
        /\ promptDelivered[p] = 1 /\ promptSends[p] = 1
        /\ polls[p].status = "open"
        /\ reply = Reply("httpVote", p, "200 ok")
        /\ AnsweredAll(p, "u1")

\* the vote rows of a poll
RowsOf(p) == {v \in votes3 : v.poll_id = p}

\* the deadline of the poll is set and has passed
Expired(p) == p \in DOMAIN polls /\ polls[p].deadline # NoDeadline /\ now > polls[p].deadline

\* C13: once the deadline of a poll has passed, no step (HTTP vote endpoint or postback
\* vote callback) changes the vote rows of that poll.
C13_ExpiredLedgerFrozen ==
    [][\A p \in PollIdSet : Expired(p) => RowsOf(p)' = RowsOf(p)]_vars

\* the three rejections of the HTTP vote endpoint
HttpRejections == {"404 not_found", "403 poll_closed", "403 deadline_passed"}

\* C14: the HTTP vote endpoint answers not-found exactly for an unknown poll, forbidden
\* exactly when the status is not open or now > deadline (a request at now = deadline
\* with a valid batch is accepted), and a rejected request leaves the vote rows and the
\* tally as they were, writes nothing to any subscriber and starts no close-prompt check.
C14_HttpVoteRejections ==
    [][\A p \in PollIdSet :
         (reply'.op = "httpVote" /\ reply'.pollId = p) =>
            /\ reply'.msg = "404 not_found" <=> p \notin DOMAIN polls
            /\ reply'.msg = "403 poll_closed" <=> (p \in DOMAIN polls /\ polls[p].status # "open")
            /\ reply'.msg = "403 deadline_passed" <=>
                   (p \in DOMAIN polls /\ polls[p].status = "open" /\ Expired(p))
            /\ reply'.msg \notin HttpRejections => reply'.msg = "200 ok"
            /\ reply'.msg \in HttpRejections =>
                   /\ votes3' = votes3
                   /\ getPollTally3(votes3, p)' = getPollTally3(votes3, p)
                   /\ received' = received
                   /\ tasks' = tasks
                   /\ UNCHANGED <<polls, options, promptedClosePolls, channels, sendVars>>]_vars

\* C14 witness: a request one tick after the deadline was just rejected while a
\* subscriber is registered on the poll and the poll has votes
C14_Witness ==
    \E p \in DOMAIN polls :
        /\ reply = Reply("httpVote", p, "403 deadline_passed")
        /\ polls[p].status = "open" /\ now = polls[p].deadline + 1
        /\ channels[p] # {} /\ RowsOf(p) # {}

\* C15: a closed poll stays closed, and no step changes its vote rows or its tally.
C15_ClosedLedgerFrozen ==
    [][\A p \in DOMAIN polls :
          polls[p].status = "closed" =>
             /\ polls'[p].status = "closed"
             /\ RowsOf(p)' = RowsOf(p)
             /\ getPollTally3(votes3, p)' = getPollTally3(votes3, p)]_vars

\* the users holding a vote row on an option
UsersOn(o) == {v.user_id : v \in {w \in votes3 : w.option_id = o}}

\* C16: for every option of every poll, yes + maybe + no of its tally row equals the
\* number of distinct users holding a vote row on that option.
C16_TallyConservation ==
    \A p \in DOMAIN polls :
        LET tally == getPollTally3(votes3, p)
        IN \A i \in 1..Len(tally) :
              tally[i].yes_count + tally[i].maybe_count + tally[i].no_count
                  = Cardinality(UsersOn(tally[i].option_id))

\* the step is a submission of batch b by user u on poll p that the endpoint accepted
Accepted(p, u, b) == reply' = Reply("httpVote", p, "200 ok") /\ HttpVote(p, u, b)

\* entry i is the only entry of the batch for its option and is well formed
SoleEntry(b, i) ==
    /\ b[i].optionId # NotAString
    /\ b[i].choice \in {"0", "1", "2"}
    /\ \A j \in DOMAIN b : j # i => b[j].optionId # b[i].optionId

\* the vote rows outside (poll p, user u)
RowsBeside(rows, p, u) == {v \in rows : v.poll_id # p \/ v.user_id # u}

\* C17: the ledger never holds two rows with the same (poll, option, user); after an
\* accepted submission the row of each key the batch names once holds the submitted
\* choice (last write wins), and the rows of other users and other polls are untouched;
\* a postback vote likewise writes choice 2 to its own key and touches no other row.
C17_OneRowPerKeyLastWriteWins ==
    /\ [](\A v, w \in votes3 :
             (v.poll_id = w.poll_id /\ v.option_id = w.option_id /\ v.user_id = w.user_id)
                 => v = w)
    /\ [][\A p \in PollIdSet, u \in Users, b \in LedgerBatches :
             Accepted(p, u, b) =>
                /\ \A i \in DOMAIN b :
                      SoleEntry(b, i) =>
                         [poll_id |-> p, option_id |-> b[i].optionId, user_id |-> u,
                          choice |-> ToNumber(b[i].choice)] \in votes3'
                /\ RowsBeside(votes3', p, u) = RowsBeside(votes3, p, u)
                /\ \A v \in votes3 :
                      (\A i \in DOMAIN b : b[i].optionId # v.option_id) => v \in votes3']_vars
    /\ [][\A p \in PollIdSet, u \in Users, o \in OptionIdSet :
             (reply' = Reply("vote", p, "vote_recorded") /\ PostbackVote(p, o, u)) =>
                /\ [poll_id |-> p, option_id |-> o, user_id |-> u, choice |-> 2] \in votes3'
                /\ \A v \in votes3 :
                      (v.poll_id # p \/ v.user_id # u \/ v.option_id # o) => v \in votes3'
                /\ \A v \in votes3' :
                      (v.poll_id # p \/ v.user_id # u \/ v.option_id # o) => v \in votes3]_vars

\* C17 witness: after an accepted submission two users hold rows with different choices
\* on the same option of the same poll
C17_Witness ==
    /\ reply = Reply("httpVote", "p1", "200 ok")
    /\ \E v, w \in votes3 :
          /\ v.poll_id = "p1" /\ w.poll_id = "p1" /\ v.option_id = w.option_id
          /\ v.user_id = "u1" /\ w.user_id = "u2" /\ v.choice # w.choice

\* C18: submitting to the state an accepted batch has produced the same batch for the
\* same poll and user again yields the same vote rows and the same tally.
C18_IdempotentSubmission ==
    [][\A p \in PollIdSet, u \in Users, b \in LedgerBatches :
          Accepted(p, u, b) =>
             /\ upsertVotes3(p, u, b)'.ok
             /\ upsertVotes3(p, u, b)'.rows = votes3'
             /\ getPollTally3(upsertVotes3(p, u, b).rows, p)' = getPollTally3(votes3, p)']_vars

\* C18 witness: a batch with two well-formed entries was just accepted and the ledger,
\* holding its rows, is what submitting it once more gives
C18_Witness ==
    /\ reply = Reply("httpVote", "p1", "200 ok")
    /\ \E u \in LedgerUsers :
          LET b == <<Vote("o1", "2"), Vote("o2", "1")>>
          IN /\ upsertVotes3("p1", u, b).rows = votes3
             /\ \E v \in votes3 : v.user_id = u /\ v.option_id = "o2" /\ v.choice = 1
             /\ \E v \in votes3 : v.user_id = u /\ v.option_id = "o1" /\ v.choice = 2

\* entry i survives the filter as stated: first occurrence of its option id in the
\* batch, the option id a string, the choice in {0, 1, 2}
FirstAndValid(b, i) ==
    /\ \A j \in DOMAIN b : j < i => b[j].optionId # b[i].optionId
    /\ b[i].optionId # NotAString
    /\ ToNumber(b[i].choice) \in {0, 1, 2}

\* the ledger after upserting exactly the entries of b that survive the filter
AfterFiltered(p, u, b) ==
    LET kept == {i \in DOMAIN b : FirstAndValid(b, i)}
    IN {v \in votes3 : ~(v.poll_id = p /\ v.user_id = u /\ \E i \in kept : b[i].optionId = v.option_id)}
         \cup {[poll_id |-> p, option_id |-> b[i].optionId, user_id |-> u,
                choice |-> ToNumber(b[i].choice)] : i \in kept}

\* C19: an accepted submission upserts exactly the entries that are the first occurrence
\* of their option id and have a string option id and a choice in {0, 1, 2}; a later
\* occurrence of an option id never takes effect, also when the first one was invalid.
C19_BatchFiltering ==
    [][\A p \in PollIdSet, u \in Users, b \in LedgerBatches :
          Accepted(p, u, b) => votes3' = AfterFiltered(p, u, b)]_vars

\* no entry of the batch is well formed
NoValidEntry(b) ==
    \A i \in DOMAIN b : b[i].optionId = NotAString \/ ToNumber(b[i].choice) \notin {0, 1, 2}

StorageFails(p, b) ==
    \E i \in DOMAIN b :
        /\ b[i].optionId # NotAString
        /\ ToNumber(b[i].choice) \in {0, 1, 2}
        /\ ~ForeignKeysHold(p, b[i].optionId)

\* C21: a submission on which the storage layer fails records none of its entries, the
\* caller gets the error (500 over HTTP, a failure reply for a postback vote), no
\* subscriber is written and no close-prompt check starts.
C21_AtomicBatch ==
    /\ [][\A p \in PollIdSet, u \in Users, b \in StreamBatches :
             (reply'.op = "httpVote" /\ StorageFails(p, b) /\ HttpVoteRejection(p) = "none"
                 /\ HttpVote(p, u, b)) =>
                /\ reply' = Reply("httpVote", p, "500 server_error")
                /\ votes3' = votes3
                /\ received' = received
                /\ tasks' = tasks]_vars
    /\ [][\A p \in PollIdSet, u \in Users :
             (reply'.op = "vote" /\ PostbackVote(p, UnknownOption, u)) =>
                /\ reply' = Reply("vote", p, "vote_failed")
                /\ votes3' = votes3
                /\ received' = received]_vars

\* C21 witness: a submission was just answered with the error while a live subscriber is
\* registered on the poll, and the ledger holds votes but no row with the choice 1 that
\* the failing batch carries in front of its failing entry
C21_Witness ==
    /\ reply = Reply("httpVote", "p1", "500 server_error")
    /\ channels["p1"] \ broken # {}
    /\ votes3 # {}
    /\ \A v \in votes3 : v.choice # 1

\* the headcount decision on the current rows of poll p for member count m
CountQuorum(p, m) ==
    AllAnsweredByCount(getAnswerCountsByUser(p), Len(getPollOptions(p)), m)

\* C22: for a fixed member count m > 0, once the number of complete users of a poll is
\* >= m, no step makes the headcount decision false again.
C22_QuorumMonotone ==
    [][\A p \in DOMAIN polls : \A m \in 1..Cardinality(Users) :
          CountQuorum(p, m) => CountQuorum(p, m)']_vars

\* C22 witness: after a headcount check reached quorum and pushed the prompt, a further
\* submission was accepted and the headcount decision for two members is still true
C22_Witness ==
    /\ reply = Reply("httpVote", "p1", "200 ok")
    /\ promptSends["p1"] >= 1
    /\ CountQuorum("p1", 2)
    /\ \E u \in Users : AnsweredCount("p1", u) = 1

\* a vote handler published a snapshot for poll p in this step
Published(p) ==
    reply' \in {Reply("httpVote", p, "200 ok"), Reply("vote", p, "vote_recorded")}

\* the connections registered under p whose writes succeed
LiveOn(p) == channels[p] \ broken

\* C23: a publish for poll p appends exactly one event, the same tally event, to the
\* stream of every connection registered under p (whose write succeeds), and leaves the
\* stream of every connection not registered under p as it was.
C23_PublishFanOut ==
    [][\A p \in PollIdSet : Published(p) =>
          /\ \A c \in LiveOn(p) :
                /\ Len(received'[c]) = Len(received[c]) + 1
                /\ SubSeq(received'[c], 1, Len(received[c])) = received[c]
                /\ received'[c][Len(received'[c])].type = "tally"
          /\ \A c, d \in LiveOn(p) :
                received'[c][Len(received'[c])] = received'[d][Len(received'[d])]
          /\ \A c \in Conns \ channels[p] : received'[c] = received[c]]_vars

\* C23 witness: a vote on p1 was just published, c1 registered under p1 holds the ping
\* and a tally, c2 registered under p2 holds only its ping
C23_Witness ==
    /\ reply \in {Reply("httpVote", "p1", "200 ok"), Reply("vote", "p1", "vote_recorded")}
    /\ "c1" \in LiveOn("p1")
    /\ Len(received["c1"]) = 2
    /\ received["c1"][2].type = "tally"
    /\ "c2" \in LiveOn("p2")
    /\ received["c2"] = <<Ping>>

\* C24: with a connection registered under the poll whose write fails, an accepted
\* submission is still answered with success, every other registered connection receives
\* the event, and the publish removes no connection from the registry.
C24_FailingWriteSkipped ==
    [][\A p \in PollIdSet, u \in Users, b \in StreamBatches :
          (reply'.op = "httpVote" /\ channels[p] \cap broken # {}
              /\ HttpVoteRejection(p) = "none" /\ upsertVotes3(p, u, b).ok
              /\ HttpVote(p, u, b)) =>
             /\ reply' = Reply("httpVote", p, "200 ok")
             /\ votes3' = upsertVotes3(p, u, b).rows
             /\ channels' = channels
             /\ \A c \in LiveOn(p) :
                   received'[c] = Append(received[c], TallyEvent(getPollTally3(votes3, p)'))]_vars

\* C24 witness: a submission was just accepted while a failing connection and a working
\* one are registered under the poll; the working one holds the tally of the stored rows
C24_Witness ==
    /\ reply = Reply("httpVote", "p1", "200 ok")
    /\ channels["p1"] \cap broken # {}
    /\ \E c \in LiveOn("p1") :
          /\ Len(received[c]) >= 2
          /\ received[c][Len(received[c])] = TallyEvent(getPollTally3(votes3, "p1"))
    /\ RowsOf("p1") # {}

\* C25: the close event and the error event of a registered connection each remove it
\* from the subscriber set of its poll.
C25_DeregisteredOnCloseOrError ==
    [][\A p \in PollIdSet, c \in Conns :
          (reply'.op = "stream" /\ (StreamClose(p, c) \/ StreamError(p, c))) =>
             c \notin channels'[p]]_vars

\* C26: the stream of a connection changes only when it opens, by the ping alone, or
\* when a vote on the poll it is registered under is published in that very step, by that
\* step's tally: nothing published before the subscription is delivered.
C26_NoReplay ==
    [][\A c \in Conns : received'[c] # received[c] =>
          \/ /\ received[c] = <<>>
             /\ received'[c] = <<Ping>>
             /\ \E p \in PollIdSet : reply' = Reply("stream", p, "200 open")
          \/ \E p \in PollIdSet :
                /\ c \in channels[p]
                /\ Published(p)
                /\ received'[c] = Append(received[c], TallyEvent(getPollTally3(votes3, p)'))]_vars

\* C26 witness: a connection just subscribed to a poll that already has votes, and holds
\* the ping only
C26_Witness ==
    /\ reply = Reply("stream", "p1", "200 open")
    /\ RowsOf("p1") # {}
    /\ \E c \in channels["p1"] : received[c] = <<Ping>>

\* the total vote count of a tally snapshot
RECURSIVE TallyTotalFrom(_, _)
TallyTotalFrom(tally, i) ==
    IF i > Len(tally) THEN 0
    ELSE tally[i].yes_count + tally[i].maybe_count + tally[i].no_count
            + TallyTotalFrom(tally, i + 1)

TallyTotal(tally) == TallyTotalFrom(tally, 1)

\* C27: the snapshot a vote handler publishes is the tally of the rows stored after its
\* write, and the snapshots delivered to one connection have non-decreasing totals.
C27_SnapshotAfterCommit ==
    /\ [][\A p \in PollIdSet : Published(p) =>
             \A c \in LiveOn(p) :
                received'[c][Len(received'[c])] = TallyEvent(getPollTally3(votes3, p)')]_vars
    /\ [](\A c \in Conns : \A i, j \in DOMAIN received[c] :
             i < j => TallyTotal(received[c][i].tally) <= TallyTotal(received[c][j].tally))

\* C27 witness: a connection holds two snapshots with totals 1 and 2, the second one the
\* tally of the stored rows, right after the second vote
C27_Witness ==
    /\ reply \in {Reply("httpVote", "p1", "200 ok"), Reply("vote", "p1", "vote_recorded")}
    /\ \E c \in LiveOn("p1") :
          /\ Len(received[c]) = 3
          /\ TallyTotal(received[c][2].tally) = 1
          /\ TallyTotal(received[c][3].tally) = 2
          /\ received[c][3] = TallyEvent(getPollTally3(votes3, "p1"))

\* the number of users holding choice ch on option o of poll p
Holding(p, o, ch) ==
    Cardinality({v \in votes3 : v.poll_id = p /\ v.option_id = o /\ v.choice = ch})

\* the position of option o in the creation order of the options of poll p
CreatedAt(p, o) ==
    CHOOSE i \in DOMAIN getPollOptions(p) : getPollOptions(p)[i].id = o

\* option a is offered before option b: more yes; on equal yes more maybe; on equal yes
\* and maybe fewer no; on a full tie the option created first
OfferedBefore(p, a, b) ==
    \/ Holding(p, a, 2) > Holding(p, b, 2)
    \/ /\ Holding(p, a, 2) = Holding(p, b, 2)
       /\ Holding(p, a, 1) > Holding(p, b, 1)
    \/ /\ Holding(p, a, 2) = Holding(p, b, 2)
       /\ Holding(p, a, 1) = Holding(p, b, 1)
       /\ Holding(p, a, 0) < Holding(p, b, 0)
    \/ /\ Holding(p, a, 2) = Holding(p, b, 2)
       /\ Holding(p, a, 1) = Holding(p, b, 1)
       /\ Holding(p, a, 0) = Holding(p, b, 0)
       /\ CreatedAt(p, a) < CreatedAt(p, b)

\* C28: on a yes close, the candidates offered are the options of the poll, each once,
\* ordered by yes descending, then maybe descending, then no ascending over the votes
\* stored at that moment; fully tied options keep their creation order.
C28_CandidateOrder ==
    [][\A p \in PollIdSet : reply' = Reply("close", p, "candidates") =>
          /\ Len(offered') = Cardinality(OptionsOf(p))
          /\ Range(offered') = OptionsOf(p)
          /\ \A i, j \in DOMAIN offered' :
                i < j => OfferedBefore(p, offered'[i], offered'[j])]_vars

\* C28 witness: a yes close offered o3 first (most yes), then o1 before o2, both with
\* one yes and one maybe, because o2 has the no that o1 has not
C28_Witness ==
    /\ reply = Reply("close", "p1", "candidates")
    /\ offered = <<"o3", "o1", "o2">>
    /\ Holding("p1", "o3", 2) = 2
    /\ Holding("p1", "o1", 2) = Holding("p1", "o2", 2)
    /\ Holding("p1", "o1", 1) = Holding("p1", "o2", 1)
    /\ Holding("p1", "o1", 0) < Holding("p1", "o2", 0)

\* C29: the deadline endpoint answers 401 and changes nothing when no admin secret is
\* configured or the request does not carry it; with the credential, an unparsable
\* deadline is answered 400 and an unknown poll is rejected, nothing changing; the
\* deadline of a poll changes only for a caller with the configured credential.
C29_DeadlineGuarded ==
    [][\A p \in PollIdSet, k \in AdminCredentials, d \in DeadlineBodies :
          (reply'.op = "deadline" /\ AdminSetDeadline(p, Authorized(k.secret, k.auth), d)) =>
             /\ (k.secret = "" \/ k.auth # k.secret) =>
                   reply'.msg = "401 unauthorized" /\ polls' = polls
             /\ (k.secret # "" /\ k.auth = k.secret /\ d.kind # "absent" /\ d.ts = NaN) =>
                   reply'.msg = "400 invalid_deadline" /\ polls' = polls
             /\ (k.secret # "" /\ k.auth = k.secret /\ p \notin DOMAIN polls) =>
                   reply'.msg \in {"400 invalid_deadline", "404 not_found"} /\ polls' = polls
             /\ UNCHANGED <<options, votes3>>]_vars

\* C29 witness: a request without the credential was just answered 401 on a poll whose
\* deadline an earlier authorized request had set
C29_Witness ==
    /\ reply = Reply("deadline", "p1", "401 unauthorized")
    /\ "p1" \in DOMAIN polls
    /\ polls["p1"].deadline # NoDeadline

\* C30: a deadline request and the passing of time change neither the status of a poll
\* nor any vote row, and the status of a poll changes only in a close or finalize step.
C30_DeadlineSoftGate ==
    [][\A p \in DOMAIN polls :
          /\ (reply'.op = "deadline" \/ now' # now) =>
                polls'[p].status = polls[p].status /\ votes3' = votes3
          /\ polls'[p].status # polls[p].status => reply'.op \in {"close", "finalize"}]_vars

\* C30 witness: a poll with votes whose deadline was set and has passed is still open
C30_Witness ==
    /\ Expired("p1")
    /\ polls["p1"].status = "open"
    /\ RowsOf("p1") # {}
    /\ reply = NoReply

VotersConsistent(c, n) ==
    /\ Cardinality({r.user_id : r \in c}) >= 2
    /\ \A r \in c : r.cnt >= n

\* C32: an HTTP vote that passes the checks and the storage is recorded and answered 200
\* whatever the membership queries and the prompt send do afterwards; the steps of the
\* close-prompt check answer nobody and change no vote row or poll; a failed member-count
\* query goes on to the member-id query without deciding, and a failed member-id query
\* decides by the voter self-consistency strategy.
C32_FailuresNotSurfaced ==
    /\ [][\A p \in PollIdSet, u \in GroupMembers, b \in PromptBatches :
             (reply'.op = "httpVote" /\ HttpVoteRejection(p) = "none" /\ ~StorageFails(p, b)
                 /\ HttpVote(p, u, b)) =>
                /\ reply' = Reply("httpVote", p, "200 ok")
                /\ votes3' = upsertVotes3(p, u, b).rows]_vars
    /\ [][reply'.op = "none" => votes3' = votes3 /\ polls' = polls]_vars
    /\ [][\A t \in Tasks :
             (reply'.op = "none" /\ CheckAfterCount(t, CountUnavailable)) =>
                /\ tasks'[t].pc = "awaitIds"
                /\ promptSends' = promptSends]_vars
    /\ [][\A t \in Tasks :
             (reply'.op = "none" /\ CheckAfterIds(t, {})) =>
                /\ lastCheck'.allAnswered = VotersConsistent(tasks[t].counts, tasks[t].nOpts)
                /\ (promptSends' # promptSends) = lastCheck'.allAnswered]_vars

\* C32 witness: the member count and the member list both failed, the check decided
\* quorum by the voters strategy and attempted the prompt, and the votes are stored
C32_Witness ==
    /\ lastCheck.pollId = "p1"
    /\ lastCheck.memberCount = CountUnavailable
    /\ lastCheck.idsAsked
    /\ lastCheck.memberIds = {}
    /\ lastCheck.allAnswered
    /\ promptSends["p1"] >= 1
    /\ Cardinality(Voters("p1")) >= 2

NothingToPrompt(p) ==
    \/ p \notin DOMAIN polls
    \/ Len(getPollOptions(p)) = 0
    \/ polls[p].group_id = ""

\* C34: a confirmation prompt is sent only for a known poll with at least one option and
\* a group target, in a step whose quorum decision is "reached"; a check invoked on a
\* poll without one of these returns at once, and a step deciding "not reached" sends
\* nothing; in all these cases the flag, the polls and the vote rows stay as they are.
C34_NoPromptWithoutQuorum ==
    /\ [][\A p \in PollIdSet : promptSends'[p] > promptSends[p] =>
             /\ ~NothingToPrompt(p)
             /\ lastCheck'.pollId = p
             /\ lastCheck'.allAnswered]_vars
    /\ [][\A p \in PollIdSet :
             (reply'.op = "check" /\ NothingToPrompt(p) /\ checkAndPromptClose(p)) =>
                /\ reply'.msg = "returned"
                /\ UNCHANGED <<tasks, promptedClosePolls, promptSends, polls, votes3>>]_vars
    /\ [][\A p \in PollIdSet :
             (reply' = Reply("httpVote", p, "200 ok") /\ NothingToPrompt(p)) =>
                UNCHANGED <<tasks, promptedClosePolls, promptSends, polls>>]_vars
    /\ [][(lastCheck'.pollId # Null /\ ~lastCheck'.allAnswered) =>
             UNCHANGED <<promptedClosePolls, promptSends, polls, votes3>>]_vars

\* C34 witness: the check was just invoked on a stored poll without options on which a
\* user holds a vote row, and returned; no prompt was ever attempted for that poll
C34_Witness ==
    /\ reply.op = "check"
    /\ reply.msg = "returned"
    /\ reply.pollId \in DOMAIN polls
    /\ Len(getPollOptions(reply.pollId)) = 0
    /\ polls[reply.pollId].group_id # ""
    /\ RowsOf(reply.pollId) # {}
    /\ promptSends[reply.pollId] = 0
    /\ reply.pollId \notin promptedClosePolls

\* C35: a close response on a poll that is closing is ignored, yes or no: the polls are
\* unchanged and no candidate list is offered; the candidate list is offered only in the
\* step that moves the poll from open to closing, and no step moves a poll back to open,
\* so of several yes responses exactly one makes the transition.
C35_CloseOnce ==
    /\ [][\A p \in DOMAIN polls :
             (polls[p].status = "closing" /\ reply'.op = "close" /\ reply'.pollId = p) =>
                /\ polls' = polls
                /\ reply'.msg = "already_closing"
                /\ offered' = <<>>]_vars
    /\ [][\A p \in DOMAIN polls :
             reply' = Reply("close", p, "candidates") =>
                polls[p].status = "open" /\ polls'[p].status = "closing"]_vars
    /\ [][offered' # <<>> => reply'.op = "close" /\ reply'.msg = "candidates"]_vars
    /\ [][\A p \in DOMAIN polls :
             polls[p].status # "open" => polls'[p].status # "open"]_vars

\* C35 witness: a close response was just ignored on a poll that is closing
C35_Witness ==
    /\ reply = Reply("close", "p1", "already_closing")
    /\ polls["p1"].status = "closing"
    /\ offered = <<>>

\* C36: an HTTP vote is committed, and answered with success, only on a poll whose
\* status is open in the state the write is made in; a request on a poll that is not
\* open is rejected and writes no vote row.
C36_HttpVoteOnlyWhileOpen ==
    [][\A p \in PollIdSet : reply'.op = "httpVote" /\ reply'.pollId = p =>
          /\ reply'.msg = "200 ok" => p \in DOMAIN polls /\ polls[p].status = "open"
          /\ (p \in DOMAIN polls /\ polls[p].status # "open") =>
                reply'.msg = "403 poll_closed" /\ votes3' = votes3]_vars

\* C36 witness: an HTTP vote was just rejected on a poll that a yes close response had
\* moved to closing after an earlier vote was stored
C36_Witness ==
    /\ reply = Reply("httpVote", "p1", "403 poll_closed")
    /\ polls["p1"].status = "closing"
    /\ RowsOf("p1") # {}

\* C38: a finalize naming an unknown poll, or an option id that is not an option of the
\* poll, is rejected: polls, notifications and closures stay as they were; and a
\* finalize with an option of the poll on a poll that is not closed closes it.
C38_FinalizeRejections ==
    /\ [][\A p \in PollIdSet, o \in OptionIdSet \cup {UnknownOption} :
             (reply'.op = "finalize"
                 /\ (p \notin DOMAIN polls \/ o \notin OptionsOf(p))
                 /\ PostbackFinalize(p, o)) =>
                /\ reply'.msg \in {"failed poll_not_found", "failed option_not_found",
                                   "already_finalized"}
                /\ UNCHANGED <<polls, finalizeNotices, finalizeClosures>>]_vars
    /\ [][\A p \in DOMAIN polls, o \in OptionIdSet :
             (reply'.op = "finalize" /\ o \in OptionsOf(p) /\ polls[p].status # "closed"
                 /\ PostbackFinalize(p, o)) =>
                polls'[p].status = "closed"]_vars

\* C38 witness: a finalize naming an option of the other poll was just rejected on a
\* poll that is closing, and nothing was notified
C38_Witness ==
    /\ reply = Reply("finalize", "p1", "failed option_not_found")
    /\ polls["p1"].status = "closing"
    /\ "p2" \in DOMAIN polls
    /\ finalizeNotices["p1"] = 0
    /\ finalizeClosures["p1"] = 0

\* the vote rows that are not keyed by poll p and user u
RowsNotOf(p, u) == {v \in votes3 : ~(v.poll_id = p /\ v.user_id = u)}

\* C37: a vote submission of user u on poll p, over HTTP or by postback, leaves every
\* vote row not keyed by (p, u) and every poll row (status, deadline) as it was.
C37_VoteFrame ==
    /\ [][\A p \in PollIdSet, u \in CreateUsers, c \in {"1", "2"} :
             (reply'.op = "httpVote" /\ reply'.pollId = p /\ HttpVote(p, u, <<Vote("o1", c)>>)) =>
                RowsNotOf(p, u)' = RowsNotOf(p, u) /\ polls' = polls]_vars
    /\ [][\A p \in PollIdSet, u \in CreateUsers :
             (reply'.op = "vote" /\ reply'.pollId = p /\ PostbackVote(p, "o1", u)) =>
                RowsNotOf(p, u)' = RowsNotOf(p, u) /\ polls' = polls]_vars

\* C37 witness: u1 just voted on p1 while u2 holds a row on p1 and u1 holds a row on p2
C37_Witness ==
    /\ reply \in {Reply("httpVote", "p1", "200 ok"), Reply("vote", "p1", "vote_recorded")}
    /\ \E v \in votes3 : v.poll_id = "p1" /\ v.user_id = "u1"
    /\ \E v \in votes3 : v.poll_id = "p1" /\ v.user_id = "u2"
    /\ \E v \in votes3 : v.poll_id = "p2" /\ v.user_id = "u1"

\* C39: the status set by a yes close or by a finalize stays when the message sent after
\* it fails: the poll is closing after a failed candidate-list reply and closed after a
\* failed group notification; a closing poll never returns to open and a closed poll
\* stays closed; a finalize on a closed poll is rejected, so that at most one group
\* notification is ever attempted per poll.
C39_StatusSurvivesSendFailure ==
    /\ [][\A p \in DOMAIN polls :
             (reply' = Reply("close", p, "candidates") /\ delivery' = "failed") =>
                polls'[p].status = "closing"]_vars
    /\ [][\A p \in DOMAIN polls :
             (reply' = Reply("finalize", p, "finalized") /\ delivery' = "failed") =>
                polls'[p].status = "closed"]_vars
    /\ [][\A p \in DOMAIN polls :
             /\ polls[p].status = "closing" => polls'[p].status \in {"closing", "closed"}
             /\ polls[p].status = "closed" =>
                   /\ polls'[p].status = "closed"
                   /\ finalizeNotices'[p] = finalizeNotices[p]
                   /\ reply'.op = "finalize" /\ reply'.pollId = p =>
                         reply'.msg \in {"already_finalized"}]_vars
    /\ [](\A p \in PollIdSet : finalizeNotices[p] <= 1)

\* C39 witness: a finalize just closed the poll, its group notification failed, and the
\* poll is closed
C39_Witness ==
    /\ reply = Reply("finalize", "p1", "finalized")
    /\ delivery = "failed"
    /\ polls["p1"].status = "closed"
    /\ finalizeNotices["p1"] = 1

\* user u holds choice 2 on option o of poll p
AlreadyYes(p, o, u) ==
    \E v \in votes3 : v.poll_id = p /\ v.option_id = o /\ v.user_id = u /\ v.choice = 2

\* the vote rows keyed by (p, o, u)
RowsAt(p, o, u) == {v \in votes3 : v.poll_id = p /\ v.option_id = o /\ v.user_id = u}

\* the poll and the option named by a postback are stored
PollAndOptionStored(p, o) ==
    p \in DOMAIN polls /\ \E i \in DOMAIN options : options[i].id = o

\* C40: a vote postback of user u on option o of poll p that u already marked yes writes
\* no vote row and publishes nothing; otherwise, poll and option existing, it replaces the
\* rows keyed by (p, o, u) by the one row with choice 2, changes no other row, and
\* publishes the tally of the rows after the write to the subscribers of p.
C40_PostbackVoteEffect ==
    [][\A u \in PostbackUsers, o \in PostbackOptions :
          (reply'.op = "vote" /\ PostbackVote("p1", o, u)) =>
             IF AlreadyYes("p1", o, u)
             THEN /\ reply'.msg = "already_yes"
                  /\ votes3' = votes3
                  /\ received' = received
             ELSE IF PollAndOptionStored("p1", o)
             THEN /\ reply'.msg = "vote_recorded"
                  /\ votes3' = (votes3 \ RowsAt("p1", o, u))
                                  \cup {[poll_id |-> "p1", option_id |-> o, user_id |-> u,
                                         choice |-> 2]}
                  /\ \A c \in LiveOn("p1") :
                        received'[c]
                           = Append(received[c], TallyEvent(getPollTally3(votes3, "p1")'))
             ELSE votes3' = votes3 /\ received' = received]_vars

\* C40 witness: a vote postback on an option its user had already marked yes was just
\* answered, a subscriber of the poll holding the ping and the tally of the first vote
C40_Witness ==
    /\ reply = Reply("vote", "p1", "already_yes")
    /\ \E c \in LiveOn("p1") : Len(received[c]) = 2
    /\ Cardinality(RowsOf("p1")) = 1

====
